---------------------------- MODULE Spec2Model ----------------------------
(***************************************************************************)
(* Model of src/main.go: an in-memory broker of named priority queues.     *)
(*                                                                         *)
(* State: the QueueManager (the map Queues from names to *Queue, and its   *)
(* lock), the Queue objects on the heap (three slices and a mutex each),   *)
(* and one record per request goroutine (its position in the handler and   *)
(* its locals).  Every step between two synchronisation points of the code *)
(* is one action, and so is the answer a handler writes after its call of  *)
(* Push or Pop has released the lock of the queue.                         *)
(*                                                                         *)
(* Ghost state, read by the properties only and never by the program:      *)
(* every accepted push request is numbered (id), the number travels with   *)
(* the task through the slices, and hist[q] records, for the Queue object  *)
(* q and in the order they happen, the calls of Push and the moments Push  *)
(* and Pop are done with the queue (their Unlock).                         *)
(***************************************************************************)
EXTENDS Naturals, Sequences, FiniteSets

(***************************************************************************)
(* Bounds and input alphabets.                                             *)
(***************************************************************************)
\* Total number of HTTP requests that are started in one behaviour of the
\* server.
MaxOps == 2

\* Total number of HTTP requests of a behaviour of the server when all
\* clients use one queue name.
MaxSingleOps == 3

\* Total number of HTTP requests of a behaviour of the fair specification.
MaxLiveOps == 2

\* Largest number of pushes of the drain scenario.
MaxDrain == 3

\* Largest number of pushes of the concurrent-push scenario, which is also
\* the number of request goroutines.
MaxPushers == 3

\* Largest number of other requests that come between the two pushes and the
\* two pops of the FIFO scenario.
MaxOthers == 1

\* Request goroutines.  net/http runs every request on a goroutine of its
\* own, and goroutines have no identity the program can see, so a new
\* request takes the lowest free one.  The server specification keeps up to
\* two requests in flight (Callers).
Goroutines == 1..MaxPushers
Callers == {1, 2}

\* Values of the "queue" query parameter; "" is also what Get returns when
\* the parameter is missing.
QueueNames == {"a", "b"}
QueryNames == QueueNames \cup {""}

\* The same when all clients use one queue name.
SingleNames == {"a", ""}

\* Task bodies and priority strings sent by clients.  "urgent" stands for any
\* unrecognized priority, "" for a priority field that is present but empty.
Bodies == {"x"}
Priorities == {"high", "medium", "low", "", "urgent"}

\* Marker of a JSON field that is missing from the payload.
Absent == "<absent>"

\* A request body: unparseable, or a JSON object with a body and an
\* optional priority.
Payloads ==
    {[ok |-> FALSE, body |-> Absent, priority |-> Absent]} \cup
    [ok : {TRUE}, body : Bodies, priority : Priorities \cup {Absent}]

\* No goroutine (the holder of a free lock).
None == 0

(***************************************************************************)
(* Program state.                                                          *)
(***************************************************************************)
VARIABLES
    Queues,     \* manager.Queues: function from the registered names to heap indices
    qmmu,       \* manager.mu: the caller holding it, or None
    heap,       \* sequence of the Queue objects allocated so far
    pc,         \* pc[c]: position of caller c
    locals,     \* locals[c]: op, queueName, task, exists, queue of caller c
    resp,       \* resp[c]: what the handler of c wrote to its ResponseWriter
    nops,       \* number of requests started so far
    hist,       \* ghost: hist[q] is the calls of Push and the Unlocks of Push/Pop on heap[q]
    plan        \* the client workload: any requests, or a scripted scenario

vars == <<Queues, qmmu, heap, pc, locals, resp, nops, hist, plan>>

(***************************************************************************)
(* Task, Queue.                                                            *)
(***************************************************************************)
\* type Task struct { Body, Priority string }
Task(body, priority) == [Body |-> body, Priority |-> priority]

\* A slot of a tier slice: the Task stored there and the ghost number of the
\* push request that stored it.
Slot(task, id) == [task |-> task, id |-> id]

\* &Queue{}: three nil slices and an unlocked mutex.
NewQueue == [High |-> <<>>, Medium |-> <<>>, Low |-> <<>>, mu |-> None]

\* Mutant of Push: the task is put at the front of its tier.
Push_Prepend(q, slot) ==
    CASE slot.task.Priority = "high"   -> [q EXCEPT !.High = <<slot>> \o q.High]
      [] slot.task.Priority = "medium" -> [q EXCEPT !.Medium = <<slot>> \o q.Medium]
      [] OTHER                         -> [q EXCEPT !.Low = <<slot>> \o q.Low]

\* Mutant of Push: a task of any other priority goes to the Medium tier.
Push_DefaultMedium(q, slot) ==
    CASE slot.task.Priority = "high"   -> [q EXCEPT !.High = Append(q.High, slot)]
      [] slot.task.Priority = "medium" -> [q EXCEPT !.Medium = Append(q.Medium, slot)]
      [] OTHER                         -> [q EXCEPT !.Medium = Append(q.Medium, slot)]

\* Mutant of Push: a task of any other priority is stored as a "low" task.
Push_Normalize(q, slot) ==
    CASE slot.task.Priority = "high"   -> [q EXCEPT !.High = Append(q.High, slot)]
      [] slot.task.Priority = "medium" -> [q EXCEPT !.Medium = Append(q.Medium, slot)]
      [] OTHER                         ->
            [q EXCEPT !.Low = Append(q.Low, [slot EXCEPT !.task.Priority = "low"])]

\* Mutant of Push: the tier is replaced by a slice holding only the new task.
Push_Overwrite(q, slot) ==
    CASE slot.task.Priority = "high"   -> [q EXCEPT !.High = <<slot>>]
      [] slot.task.Priority = "medium" -> [q EXCEPT !.Medium = <<slot>>]
      [] OTHER                         -> [q EXCEPT !.Low = <<slot>>]

\* The body of Queue.Push between Lock and Unlock: the switch on
\* task.Priority and the append.
Push(q, slot) ==
    CASE slot.task.Priority = "high"   -> [q EXCEPT !.High = Append(q.High, slot)]
      [] slot.task.Priority = "medium" -> [q EXCEPT !.Medium = Append(q.Medium, slot)]
      [] OTHER                         -> [q EXCEPT !.Low = Append(q.Low, slot)]

\* Mutant of Pop: the medium tier is tried before the high tier.
Pop_MediumFirst(q) ==
    IF Len(q.Medium) > 0
    THEN [queue |-> [q EXCEPT !.Medium = Tail(q.Medium)], result |-> <<Head(q.Medium)>>]
    ELSE IF Len(q.High) > 0
    THEN [queue |-> [q EXCEPT !.High = Tail(q.High)], result |-> <<Head(q.High)>>]
    ELSE IF Len(q.Low) > 0
    THEN [queue |-> [q EXCEPT !.Low = Tail(q.Low)], result |-> <<Head(q.Low)>>]
    ELSE [queue |-> q, result |-> <<>>]

\* Mutant of Pop: the last element of the tier is taken, not the first.
Pop_Last(q) ==
    LET Front(t) == SubSeq(t, 1, Len(t) - 1)
    IN  IF Len(q.High) > 0
        THEN [queue |-> [q EXCEPT !.High = Front(q.High)], result |-> <<q.High[Len(q.High)]>>]
        ELSE IF Len(q.Medium) > 0
        THEN [queue |-> [q EXCEPT !.Medium = Front(q.Medium)],
              result |-> <<q.Medium[Len(q.Medium)]>>]
        ELSE IF Len(q.Low) > 0
        THEN [queue |-> [q EXCEPT !.Low = Front(q.Low)], result |-> <<q.Low[Len(q.Low)]>>]
        ELSE [queue |-> q, result |-> <<>>]

\* Mutant of Pop: the tier is emptied when its front element is taken.
Pop_ClearTier(q) ==
    IF Len(q.High) > 0
    THEN [queue |-> [q EXCEPT !.High = <<>>], result |-> <<Head(q.High)>>]
    ELSE IF Len(q.Medium) > 0
    THEN [queue |-> [q EXCEPT !.Medium = <<>>], result |-> <<Head(q.Medium)>>]
    ELSE IF Len(q.Low) > 0
    THEN [queue |-> [q EXCEPT !.Low = <<>>], result |-> <<Head(q.Low)>>]
    ELSE [queue |-> q, result |-> <<>>]

\* Mutant of Pop: the front element is returned but stays in its tier.
Pop_Peek(q) ==
    IF Len(q.High) > 0
    THEN [queue |-> q, result |-> <<Head(q.High)>>]
    ELSE IF Len(q.Medium) > 0
    THEN [queue |-> q, result |-> <<Head(q.Medium)>>]
    ELSE IF Len(q.Low) > 0
    THEN [queue |-> q, result |-> <<Head(q.Low)>>]
    ELSE [queue |-> q, result |-> <<>>]

\* Mutant of Pop: an empty queue yields a pointer to a zero Task, not nil.
Pop_ZeroTask(q) ==
    IF Len(q.High) > 0
    THEN [queue |-> [q EXCEPT !.High = Tail(q.High)], result |-> <<Head(q.High)>>]
    ELSE IF Len(q.Medium) > 0
    THEN [queue |-> [q EXCEPT !.Medium = Tail(q.Medium)], result |-> <<Head(q.Medium)>>]
    ELSE IF Len(q.Low) > 0
    THEN [queue |-> [q EXCEPT !.Low = Tail(q.Low)], result |-> <<Head(q.Low)>>]
    ELSE [queue |-> q, result |-> <<[task |-> [Body |-> "", Priority |-> ""], id |-> 0]>>]

\* The body of Queue.Pop between Lock and Unlock.  The result is <<>> for
\* the nil pointer and <<slot>> for a pointer to a copy of the slot.
Pop(q) ==
    IF Len(q.High) > 0
    THEN [queue |-> [q EXCEPT !.High = Tail(q.High)], result |-> <<Head(q.High)>>]
    ELSE IF Len(q.Medium) > 0
    THEN [queue |-> [q EXCEPT !.Medium = Tail(q.Medium)], result |-> <<Head(q.Medium)>>]
    ELSE IF Len(q.Low) > 0
    THEN [queue |-> [q EXCEPT !.Low = Tail(q.Low)], result |-> <<Head(q.Low)>>]
    ELSE [queue |-> q, result |-> <<>>]

(***************************************************************************)
(* Initial state.                                                          *)
(***************************************************************************)
NoTask == Task("", "")

\* Locals of a goroutine that runs no handler.
\* id (the number of the request) and unseen (the name was not registered
\* when the handler called GetQueue) are ghost.
\* result is what Queue.Pop returned to the handler: <<>> for nil.
IdleLocals == [op |-> "none", queueName |-> "", task |-> NoTask, id |-> 0,
               unseen |-> FALSE, exists |-> FALSE, queue |-> 0, result |-> <<>>]

\* Nothing written to the ResponseWriter yet.
NoResp == [status |-> 0, msg |-> "", queueName |-> "", task |-> NoTask]

\* NewQueueManager(): an empty map.
NewQueueManager == [n \in {} |-> 0]

\* var manager = NewQueueManager(), and no request received yet.
Start ==
    /\ Queues = NewQueueManager
    /\ qmmu = None
    /\ heap = <<>>
    /\ pc = [c \in Goroutines |-> "idle"]
    /\ locals = [c \in Goroutines |-> IdleLocals]
    /\ resp = [c \in Goroutines |-> NoResp]
    /\ nops = 0
    /\ hist = <<>>

\* A workload: its kind, and for a scripted scenario the number of pushes,
\* the queue they go to and their tasks.
Plan(kind, n, queueName, tasks) ==
    [kind |-> kind, n |-> n, queueName |-> queueName, tasks |-> tasks]

Init ==
    /\ Start
    /\ plan = Plan("server", 0, "", <<>>)

(***************************************************************************)
(* The HTTP handlers, up to the call of manager.GetQueue.                  *)
(***************************************************************************)
\* json.NewDecoder(r.Body).Decode(&task) on a parseable payload: a missing
\* field leaves the zero value "".
Decode(payload) ==
    Task(IF payload.body = Absent THEN "" ELSE payload.body,
         IF payload.priority = Absent THEN "" ELSE payload.priority)

\* pushTaskHandler, lines 104-107: "Default to low priority if not set".
DefaultPriority(task) ==
    IF task.Priority = "" THEN [task EXCEPT !.Priority = "low"] ELSE task

\* http.Error(w, msg, code)
HttpError(code, msg) == [NoResp EXCEPT !.status = code, !.msg = msg]

\* c is the goroutine the server hands the next request to.
FreeGoroutine(c) ==
    /\ pc[c] = "idle"
    /\ \A d \in Goroutines : pc[d] = "idle" => c <= d

\* pushTaskHandler from its entry to the call of manager.GetQueue, or to the
\* return after http.Error.
pushTaskHandler(c, payload, queueName) ==
    /\ FreeGoroutine(c)
    /\ nops' = nops + 1
    /\ IF ~payload.ok
       THEN /\ resp' = [resp EXCEPT ![c] = HttpError(400, "Invalid request body")]
            /\ UNCHANGED <<pc, locals>>
       ELSE IF queueName = ""
       THEN /\ resp' = [resp EXCEPT ![c] = HttpError(400, "Queue query param required")]
            /\ UNCHANGED <<pc, locals>>
       ELSE /\ resp' = [resp EXCEPT ![c] = NoResp]
            /\ locals' = [locals EXCEPT ![c] =
                    [IdleLocals EXCEPT !.op = "push", !.queueName = queueName,
                                       !.task = DefaultPriority(Decode(payload)),
                                       !.id = nops + 1,
                                       !.unseen = queueName \notin DOMAIN Queues]]
            /\ pc' = [pc EXCEPT ![c] = "gq_lock"]
    /\ UNCHANGED <<Queues, qmmu, heap, hist, plan>>

\* Mutant of popTaskHandler: the check of the queue name is missing.
popTaskHandler_NoNameCheck(c, queueName) ==
    /\ FreeGoroutine(c)
    /\ nops' = nops + 1
    /\ resp' = [resp EXCEPT ![c] = NoResp]
    /\ locals' = [locals EXCEPT ![c] =
            [IdleLocals EXCEPT !.op = "pop", !.queueName = queueName,
                               !.id = nops + 1,
                               !.unseen = queueName \notin DOMAIN Queues]]
    /\ pc' = [pc EXCEPT ![c] = "gq_lock"]
    /\ UNCHANGED <<Queues, qmmu, heap, hist, plan>>

\* popTaskHandler from its entry to the call of manager.GetQueue, or to the
\* return after http.Error.
popTaskHandler(c, queueName) ==
    /\ FreeGoroutine(c)
    /\ nops' = nops + 1
    /\ IF queueName = ""
       THEN /\ resp' = [resp EXCEPT ![c] = HttpError(400, "Queue query param required")]
            /\ UNCHANGED <<pc, locals>>
       ELSE /\ resp' = [resp EXCEPT ![c] = NoResp]
            /\ locals' = [locals EXCEPT ![c] =
                    [IdleLocals EXCEPT !.op = "pop", !.queueName = queueName,
                                       !.id = nops + 1,
                                       !.unseen = queueName \notin DOMAIN Queues]]
            /\ pc' = [pc EXCEPT ![c] = "gq_lock"]
    /\ UNCHANGED <<Queues, qmmu, heap, hist, plan>>

(***************************************************************************)
(* QueueManager.GetQueue.                                                  *)
(***************************************************************************)
\* Mutant of QmLockFree: GetQueue does not wait for the lock.
QmLockFree_Always == TRUE

\* qm.mu.Lock() can return: sync.RWMutex.Lock is exclusive, and the code
\* never takes the lock with RLock.
QmLockFree == qmmu = None

\* Mutant of Exists: the lookup always misses, so GetQueue always creates.
Exists_Never(queueName) == FALSE

\* Line 80: _, exists := qm.Queues[queueName].
Exists(queueName) == queueName \in DOMAIN Queues

\* Lines 77-80: qm.mu.Lock() returns and the map is looked up.
GetQueueLock(c) ==
    /\ pc[c] = "gq_lock"
    /\ QmLockFree
    /\ qmmu' = c
    /\ locals' = [locals EXCEPT ![c].exists = Exists(locals[c].queueName)]
    /\ pc' = [pc EXCEPT ![c] = IF Exists(locals[c].queueName) THEN "gq_return" ELSE "gq_create"]
    /\ UNCHANGED <<Queues, heap, resp, nops, hist, plan>>

\* Line 81: qm.Queues[queueName] = &Queue{}.
GetQueueCreate(c) ==
    /\ pc[c] = "gq_create"
    /\ heap' = Append(heap, NewQueue)
    /\ hist' = Append(hist, <<>>)
    /\ Queues' = [n \in DOMAIN Queues \cup {locals[c].queueName} |->
                    IF n = locals[c].queueName THEN Len(heap) + 1 ELSE Queues[n]]
    /\ pc' = [pc EXCEPT ![c] = "gq_return"]
    /\ UNCHANGED <<qmmu, locals, resp, nops, plan>>

\* A ghost event of hist[q]: "push_call" when a handler calls Push,
\* "push_done" and "pop_done" when Push and Pop release the lock of the queue,
\* the last thing they do to it; "pop_done" carries what the Pop took.
Event(ev, id, task) == [ev |-> ev, id |-> id, task |-> task]

\* hist with event e recorded for the Queue object q.
Record(q, e) == [hist EXCEPT ![q] = Append(hist[q], e)]

\* Mutant of Lookup: every name is served by the queue of the first name.
Lookup_Shared(queueName) == Queues[CHOOSE n \in DOMAIN Queues : \A m \in DOMAIN Queues : Queues[n] <= Queues[m]]

\* Line 83: the value of qm.Queues[queueName].
Lookup(queueName) == Queues[queueName]

\* Mutant of GetQueueReturn: the registry lock is kept while Push or Pop runs.
GetQueueReturn_NoUnlock(c) ==
    /\ pc[c] = "gq_return"
    /\ qmmu' = qmmu
    /\ locals' = [locals EXCEPT ![c].queue = Lookup(locals[c].queueName)]
    /\ pc' = [pc EXCEPT ![c] = IF locals[c].op = "push" THEN "push_call" ELSE "pop_lock"]
    /\ UNCHANGED <<Queues, heap, resp, nops, hist, plan>>

\* Line 83 and the deferred qm.mu.Unlock(): return qm.Queues[queueName] to
\* the handler, which has yet to call Push or Pop on the returned queue.
GetQueueReturn(c) ==
    /\ pc[c] = "gq_return"
    /\ qmmu' = None
    /\ locals' = [locals EXCEPT ![c].queue = Lookup(locals[c].queueName)]
    /\ pc' = [pc EXCEPT ![c] = IF locals[c].op = "push" THEN "push_call" ELSE "pop_lock"]
    /\ UNCHANGED <<Queues, heap, resp, nops, hist, plan>>

(***************************************************************************)
(* Queue.Push and Queue.Pop as the handlers call them.                     *)
(***************************************************************************)
\* Mutant of QLockFree: Push and Pop do not wait for the lock.
QLockFree_Always(q) == TRUE

\* Mutant of QLockFree: one lock is shared by all queues.
QLockFree_Global(q) == \A o \in 1..Len(heap) : heap[o].mu = None

\* q.mu.Lock() can return.
QLockFree(q) == heap[q].mu = None

\* Line 111: the handler calls queue.Push(task).
PushCall(c) ==
    /\ pc[c] = "push_call"
    /\ hist' = Record(locals[c].queue, Event("push_call", locals[c].id, locals[c].task))
    /\ pc' = [pc EXCEPT ![c] = "push_lock"]
    /\ UNCHANGED <<Queues, qmmu, heap, locals, resp, nops, plan>>

\* Lines 26 and 42: q.mu.Lock().
QueueLock(c) ==
    /\ pc[c] \in {"push_lock", "pop_lock"}
    /\ QLockFree(locals[c].queue)
    /\ heap' = [heap EXCEPT ![locals[c].queue].mu = c]
    /\ pc' = [pc EXCEPT ![c] = IF pc[c] = "push_lock" THEN "push_body" ELSE "pop_body"]
    /\ UNCHANGED <<Queues, qmmu, locals, resp, nops, hist, plan>>

\* Lines 30-37 of Queue.Push and the deferred q.mu.Unlock(): the task is
\* appended and the lock released.  The Push has yet to return to the handler.
PushBody(c) ==
    /\ pc[c] = "push_body"
    /\ LET q == locals[c].queue
           slot == Slot(locals[c].task, locals[c].id)
       IN  /\ heap' = [heap EXCEPT ![q] = [Push(heap[q], slot) EXCEPT !.mu = None]]
           /\ hist' = Record(q, Event("push_done", locals[c].id, locals[c].task))
    /\ pc' = [pc EXCEPT ![c] = "push_resp"]
    /\ UNCHANGED <<Queues, qmmu, locals, resp, nops, plan>>

\* Push has returned; lines 113-114 of pushTaskHandler: status 200 and the
\* message naming the queue and the priority, and the handler returns.
PushRespond(c) ==
    /\ pc[c] = "push_resp"
    /\ resp' = [resp EXCEPT ![c] = [status |-> 200, msg |-> "Task added to queue",
                                    queueName |-> locals[c].queueName,
                                    task |-> locals[c].task]]
    /\ locals' = [locals EXCEPT ![c] = IdleLocals]
    /\ pc' = [pc EXCEPT ![c] = "idle"]
    /\ UNCHANGED <<Queues, qmmu, heap, nops, hist, plan>>

\* Mutant of PopBody: Pop waits on an empty queue until a task is pushed.
PopBody_Blocking(c) ==
    /\ pc[c] = "pop_body"
    /\ Pop(heap[locals[c].queue]).result # <<>>
    /\ LET q == locals[c].queue
           r == Pop(heap[q])
       IN  /\ heap' = [heap EXCEPT ![q] = [r.queue EXCEPT !.mu = None]]
           /\ hist' = Record(q, Event("pop_done", r.result[1].id, r.result[1].task))
           /\ locals' = [locals EXCEPT ![c].result = r.result]
    /\ pc' = [pc EXCEPT ![c] = "pop_resp"]
    /\ UNCHANGED <<Queues, qmmu, resp, nops, plan>>

\* Lines 45-60 of Queue.Pop and the deferred q.mu.Unlock(): the front of the
\* first non-empty tier is taken and the lock released.  The Pop has yet to
\* return its result to the handler.
PopBody(c) ==
    /\ pc[c] = "pop_body"
    /\ LET q == locals[c].queue
           r == Pop(heap[q])
       IN  /\ heap' = [heap EXCEPT ![q] = [r.queue EXCEPT !.mu = None]]
           /\ hist' = Record(q, IF r.result = <<>>
                                 THEN Event("pop_done", 0, NoTask)
                                 ELSE Event("pop_done", r.result[1].id, r.result[1].task))
           /\ locals' = [locals EXCEPT ![c].result = r.result]
    /\ pc' = [pc EXCEPT ![c] = "pop_resp"]
    /\ UNCHANGED <<Queues, qmmu, resp, nops, plan>>

\* Pop has returned; lines 128-133 of popTaskHandler: 404 for nil, else the
\* task encoded as JSON, and the handler returns.
PopRespond(c) ==
    /\ pc[c] = "pop_resp"
    /\ resp' = [resp EXCEPT ![c] =
                  IF locals[c].result = <<>>
                  THEN HttpError(404, "No tasks available in queue")
                  ELSE [status |-> 200, msg |-> "", queueName |-> "",
                        task |-> locals[c].result[1].task]]
    /\ locals' = [locals EXCEPT ![c] = IdleLocals]
    /\ pc' = [pc EXCEPT ![c] = "idle"]
    /\ UNCHANGED <<Queues, qmmu, heap, nops, hist, plan>>

(***************************************************************************)
(* The server: requests arrive in any number and order, with any inputs,   *)
(* and every goroutine in flight takes its next step at any time.          *)
(***************************************************************************)
\* The next step of the request goroutine c.
Step(c) ==
    \/ GetQueueLock(c)
    \/ GetQueueCreate(c)
    \/ GetQueueReturn(c)
    \/ PushCall(c)
    \/ QueueLock(c)
    \/ PushBody(c)
    \/ PushRespond(c)
    \/ PopBody(c)
    \/ PopRespond(c)

StartPush(c) ==
    /\ nops < MaxOps
    /\ \E payload \in Payloads, queueName \in QueryNames :
            pushTaskHandler(c, payload, queueName)

StartPop(c) ==
    /\ nops < MaxOps
    /\ \E queueName \in QueryNames : popTaskHandler(c, queueName)

Next ==
    \E c \in Callers :
        \/ StartPush(c)
        \/ StartPop(c)
        \/ Step(c)

Spec == Init /\ [][Next]_vars

\* Scheduling: the Go runtime keeps running every goroutine that can run, and
\* a goroutine waiting in sync.Mutex.Lock is handed the lock once it has
\* waited long enough (the mutex's starvation mode), however often others
\* take it.  Nothing obliges a client to send a request.
Fairness ==
    \A c \in Callers :
        /\ WF_vars(Step(c))
        /\ SF_vars(GetQueueLock(c))
        /\ SF_vars(QueueLock(c))

\* The server when all clients use one queue name, with up to MaxSingleOps
\* requests.
SingleStartPush(c) ==
    /\ nops < MaxSingleOps
    /\ \E payload \in Payloads, queueName \in SingleNames :
            pushTaskHandler(c, payload, queueName)

SingleStartPop(c) ==
    /\ nops < MaxSingleOps
    /\ \E queueName \in SingleNames : popTaskHandler(c, queueName)

SingleNext ==
    \E c \in Callers :
        \/ SingleStartPush(c)
        \/ SingleStartPop(c)
        \/ Step(c)

SingleSpec == Init /\ [][SingleNext]_vars

\* The same under fair scheduling, with up to MaxLiveOps requests.
LiveStartPush(c) ==
    /\ nops < MaxLiveOps
    /\ \E payload \in Payloads, queueName \in SingleNames :
            pushTaskHandler(c, payload, queueName)

LiveStartPop(c) ==
    /\ nops < MaxLiveOps
    /\ \E queueName \in SingleNames : popTaskHandler(c, queueName)

LiveNext ==
    \E c \in Callers :
        \/ LiveStartPush(c)
        \/ LiveStartPop(c)
        \/ Step(c)

LiveSpec == Init /\ [][LiveNext]_vars /\ Fairness

\* The payload with the given body and priority.
Payload(body, priority) == [ok |-> TRUE, body |-> body, priority |-> priority]

(***************************************************************************)
(* Scenario "concurrent": n clients push n distinct tasks of one priority  *)
(* to one queue at the same time; when all have been answered, one client  *)
(* pops n + 1 times, one request after the other.                          *)
(***************************************************************************)
\* Bodies that tell the tasks of a scenario apart.
DistinctBodies == <<"t1", "t2", "t3", "t4", "t5", "t6">>

\* The queue is named "a": the program never looks into a name other than to
\* compare it with "" and to use it as a map key.
ConcInit ==
    /\ Start
    /\ \E n \in 1..MaxPushers, queueName \in QueueNames \cap SingleNames,
          priority \in Priorities :
            plan = Plan("concurrent", n, queueName,
                        [k \in 1..n |-> Payload(DistinctBodies[k], priority)])

\* All goroutines have returned from their handlers.
Quiet == \A d \in Goroutines : pc[d] = "idle"

\* The next push of the scenario arrives, whatever the earlier ones are doing
\* (in flight or answered).
ConcPush(c) ==
    /\ nops < plan.n
    /\ pushTaskHandler(c, plan.tasks[nops + 1], plan.queueName)

\* The next pop of the scenario arrives, after everything before it was answered.
ScenarioPop(c) ==
    /\ plan.n <= nops /\ nops < 2 * plan.n + 1
    /\ Quiet
    /\ popTaskHandler(c, plan.queueName)

ConcNext ==
    \E c \in Goroutines :
        \/ ConcPush(c)
        \/ ScenarioPop(c)
        \/ Step(c)

ConcSpec == ConcInit /\ [][ConcNext]_vars

(***************************************************************************)
(* Scenario "fifo": a client pushes A and later B to queue "a", both into   *)
(* one tier, and later pops "a" twice; up to MaxOthers other requests, for  *)
(* this queue or for queue "b", arrive in between.  The requests arrive in  *)
(* the order of the plan, each as soon as a goroutine is free, so that up   *)
(* to two of them are in flight at any time.                                *)
(***************************************************************************)
\* An HTTP request: POST /push?queue=... with a payload, or GET /pop?queue=...
Request(op, queueName, payload) == [op |-> op, queueName |-> queueName, payload |-> payload]
PopRequest(queueName) == Request("pop", queueName, Payload(Absent, Absent))

\* The priorities of A and B as the clients send them: both tasks go to the
\* High tier, or both to the Low tier by two different strings.
FifoPairs == {<<"high", "high">>, <<"", "urgent">>}

\* The other requests.
FifoOthers == {Request("push", "a", Payload("x", "low")),
               Request("push", "b", Payload("x", "low")),
               PopRequest("a"), PopRequest("b")}

FifoInit ==
    /\ Start
    /\ \E m \in 0..MaxOthers, pair \in FifoPairs :
         \E i \in 2..(m + 3), j \in 2..(m + 3), others \in [1..(m + 4) -> FifoOthers] :
            /\ i < j
            /\ plan = Plan("fifo", m + 4, "a",
                        [k \in 1..(m + 4) |->
                            IF k = 1 THEN Request("push", "a", Payload("t1", pair[1]))
                            ELSE IF k = i THEN Request("push", "a", Payload("t2", pair[2]))
                            ELSE IF k \in {j, m + 4} THEN PopRequest("a")
                            ELSE others[k]])

\* The next request of the plan arrives and is a push.
FifoPush(c) ==
    /\ nops < plan.n
    /\ plan.tasks[nops + 1].op = "push"
    /\ pushTaskHandler(c, plan.tasks[nops + 1].payload, plan.tasks[nops + 1].queueName)

\* The next request of the plan arrives and is a pop.
FifoPop(c) ==
    /\ nops < plan.n
    /\ plan.tasks[nops + 1].op = "pop"
    /\ popTaskHandler(c, plan.tasks[nops + 1].queueName)

FifoNext ==
    \E c \in Callers :
        \/ FifoPush(c)
        \/ FifoPop(c)
        \/ Step(c)

FifoSpec == FifoInit /\ [][FifoNext]_vars

(***************************************************************************)
(* Scenario "drain": one client pushes n tasks of any priorities to one    *)
(* queue, one request after the other, and then pops n + 1 times.          *)
(***************************************************************************)
DrainInit ==
    /\ Start
    /\ \E n \in 0..MaxDrain, queueName \in QueueNames :
          \E priorities \in [1..n -> Priorities \cup {Absent}] :
            plan = Plan("drain", n, queueName,
                        [k \in 1..n |-> Payload(DistinctBodies[k], priorities[k])])

\* The next push of the scenario arrives, after the one before it was answered.
DrainPush(c) ==
    /\ nops < plan.n
    /\ Quiet
    /\ pushTaskHandler(c, plan.tasks[nops + 1], plan.queueName)

DrainNext ==
    \E c \in Goroutines :
        \/ DrainPush(c)
        \/ ScenarioPop(c)
        \/ Step(c)

DrainSpec == DrainInit /\ [][DrainNext]_vars

(***************************************************************************)
(* Vocabulary of the properties.                                           *)
(***************************************************************************)
\* The Queue objects allocated so far.
Objects == 1..Len(heap)

\* The three slices of a Queue object, without its lock.
Tiers(q) == <<q.High, q.Medium, q.Low>>

\* The slots a Queue object holds.
Held(q) == {q.High[i] : i \in 1..Len(q.High)} \cup {q.Medium[i] : i \in 1..Len(q.Medium)}
              \cup {q.Low[i] : i \in 1..Len(q.Low)}

\* The tier Queue.Push puts a task in: 1 (High), 2 (Medium) or 3 (Low).
TierOf(task) ==
    CHOOSE t \in 1..3 : Tiers(Push(NewQueue, Slot(task, 0)))[t] # <<>>

\* Positions of the events of kind ev in the history h, and the position of
\* the one that belongs to request id.
Events(h, ev) == {i \in 1..Len(h) : h[i].ev = ev}
At(h, ev, id) == CHOOSE i \in Events(h, ev) : h[i].id = id
Has(h, ev, id) == \E i \in Events(h, ev) : h[i].id = id

\* The last event of a non-empty history.
Last(h) == h[Len(h)]

\* Goroutine c executes the body of Queue.Pop in this step.
PopBy(c) == pc[c] = "pop_body" /\ pc'[c] = "pop_resp"

\* Goroutine c executes the body of Queue.Push in this step.
PushBy(c) == pc[c] = "push_body" /\ pc'[c] = "push_resp"

\* Goroutine c answers its pop request in this step.
PopAnswerBy(c) == pc[c] = "pop_resp" /\ pc'[c] = "idle"

(***************************************************************************)
(* C1: Pop returns the front of the highest non-empty tier: a task pushed  *)
(* with priority "high" if High is non-empty, else one pushed with         *)
(* "medium" if Medium is non-empty, else a task of Low if Low is non-empty,*)
(* else nil (the handler answers 404).                                     *)
(***************************************************************************)
\* What the Pop of this step returns on object o, given the tiers before it.
C1_Returned(o, c, tier, priority) ==
    LET e == Last(hist'[o])
    IN  /\ e.ev = "pop_done" /\ e.id # 0
        /\ e.id \in {tier[i].id : i \in 1..Len(tier)}
        /\ Has(hist[o], "push_call", e.id)
        /\ hist[o][At(hist[o], "push_call", e.id)].task = e.task
        /\ priority # "" => e.task.Priority = priority
        /\ locals'[c].result = <<Slot(e.task, e.id)>>

C1_PopStep(c) ==
    LET o == locals[c].queue
        q == heap[o]
    IN  IF q.High # <<>> THEN C1_Returned(o, c, q.High, "high")
        ELSE IF q.Medium # <<>> THEN C1_Returned(o, c, q.Medium, "medium")
        ELSE IF q.Low # <<>> THEN C1_Returned(o, c, q.Low, "")
        ELSE Last(hist'[o]) = Event("pop_done", 0, NoTask) /\ locals'[c].result = <<>>

\* The handler answers with what Pop returned to it.
C1_Answer(c) ==
    IF locals[c].result = <<>>
    THEN resp'[c].status = 404
    ELSE resp'[c].status = 200 /\ resp'[c].task = locals[c].result[1].task

\* C1: every Pop returns the front of the highest non-empty tier, or nil when
\* all three are empty.
C1_PopTakesHighestTier ==
    [][\A c \in Goroutines : /\ (PopBy(c) => C1_PopStep(c))
                              /\ (PopAnswerBy(c) => C1_Answer(c))]_vars

\* A pop has just taken a "high" task that was pushed after a task still
\* waiting in a lower tier.
C1_Witness ==
    \E o \in Objects :
        /\ hist[o] # <<>>
        /\ Last(hist[o]).ev = "pop_done"
        /\ Last(hist[o]).task.Priority = "high"
        /\ \E s \in Held(heap[o]) : s.id < Last(hist[o]).id /\ TierOf(s.task) > 1

(***************************************************************************)
(* C2: FIFO within a tier.  If Push(A) was done (had released the lock, so  *)
(* also if it had returned) before Push(B) was called on the same queue    *)
(* and both tasks go to the same tier, then B is not returned by Pop       *)
(* unless A was returned by an earlier Pop.                                *)
(***************************************************************************)
C2_FifoOn(h) ==
    \A a \in Events(h, "push_done"), b \in Events(h, "push_call") :
        (a < b /\ TierOf(h[a].task) = TierOf(h[b].task) /\ Has(h, "pop_done", h[b].id))
            => /\ Has(h, "pop_done", h[a].id)
               /\ At(h, "pop_done", h[a].id) < At(h, "pop_done", h[b].id)

\* C2: on every queue, tasks of one tier are popped in the order their pushes
\* happened.
C2_FifoWithinTier == \A o \in Objects : C2_FifoOn(hist[o])

\* The scenario has run to its end: A was pushed before B into the same tier,
\* another task was pushed to the same queue between the two, and Pop
\* returned A and later B.
C2_Witness ==
    /\ plan.kind = "fifo" /\ nops = plan.n /\ Quiet
    /\ \E o \in Objects :
          \E a \in Events(hist[o], "push_done"), b \in Events(hist[o], "push_call") :
            /\ TierOf(hist[o][a].task) = TierOf(hist[o][b].task)
            /\ \E x \in Events(hist[o], "push_call") : a < x /\ x < b
            /\ Has(hist[o], "pop_done", hist[o][a].id)
            /\ Has(hist[o], "pop_done", hist[o][b].id)
            /\ At(hist[o], "pop_done", hist[o][a].id) < At(hist[o], "pop_done", hist[o][b].id)

\* The same with a task pushed to the other queue between the pushes of A
\* and B.
C2_WitnessOtherQueue ==
    /\ plan.kind = "fifo" /\ nops = plan.n /\ Quiet
    /\ \E o \in Objects, u \in Objects :
          \E a \in Events(hist[o], "push_done"), b \in Events(hist[o], "push_call") :
            /\ a < b /\ o # u
            /\ TierOf(hist[o][a].task) = TierOf(hist[o][b].task)
            /\ \E x \in Events(hist[u], "push_done") :
                  hist[o][a].id < hist[u][x].id /\ hist[u][x].id < hist[o][b].id
            /\ Has(hist[o], "pop_done", hist[o][a].id)
            /\ Has(hist[o], "pop_done", hist[o][b].id)
            /\ At(hist[o], "pop_done", hist[o][a].id) < At(hist[o], "pop_done", hist[o][b].id)

(***************************************************************************)
(* C3: n concurrent pushes of n distinct tasks of one priority to one      *)
(* queue, then n sequential pops: the pops return every pushed task once,  *)
(* unaltered, in an order that is a serial order of the pushes (a push     *)
(* that was done before another was called comes first), and pop n + 1     *)
(* returns nil.                                                            *)
(***************************************************************************)
\* The pop_done events of a history, in order.
Pops(h) == SelectSeq(h, LAMBDA e : e.ev = "pop_done")

C3_PopsOf(h) ==
    LET pops == Pops(h)
    IN  /\ Len(pops) <= plan.n + 1
        /\ \A k \in 1..Len(pops) :
               IF k <= plan.n
               THEN /\ pops[k].id \in 1..plan.n
                    /\ pops[k].task = DefaultPriority(Decode(plan.tasks[pops[k].id]))
                    /\ \A j \in 1..(k - 1) : pops[j].id # pops[k].id
                    /\ \A a \in Events(h, "push_done"), b \in Events(h, "push_call") :
                          (a < b /\ h[b].id = pops[k].id)
                             => \E j \in 1..(k - 1) : pops[j].id = h[a].id
               ELSE pops[k] = Event("pop_done", 0, NoTask)

\* C3: after n concurrent pushes to one queue, n sequential pops return each
\* task once in a serial order of the pushes and the next pop returns nil.
C3_ConcurrentPushesAllPopped ==
    /\ Len(heap) <= 1
    /\ \A o \in Objects : C3_PopsOf(hist[o])

\* The scenario has run to its end with at least two pushes, and the pops
\* returned the tasks in another order than the requests arrived in.
C3_Witness ==
    /\ plan.n >= 2 /\ nops = 2 * plan.n + 1 /\ Quiet
    /\ \E o \in Objects :
          /\ Len(Pops(hist[o])) = plan.n + 1
          /\ {Pops(hist[o])[k].id : k \in 1..plan.n} = 1..plan.n
          /\ Pops(hist[o])[1].id = 2
          /\ Pops(hist[o])[plan.n + 1].id = 0

(***************************************************************************)
(* C4: GetQueue is an atomic get-or-create.  Exactly one Queue object is   *)
(* created for every registered name, and every caller that has returned   *)
(* from GetQueue holds the object registered under the name it asked for,  *)
(* also when several callers asked for a name nobody had registered yet.   *)
(***************************************************************************)
\* Goroutine c has returned from GetQueue and has not answered yet.
Resolved(c) ==
    pc[c] \in {"push_call", "push_lock", "pop_lock", "push_body", "pop_body",
              "push_resp", "pop_resp"}

\* C4: one object per registered name, and every caller holds the registered one.
C4_GetOrCreateAtomic ==
    /\ Len(heap) = Cardinality(DOMAIN Queues)
    /\ \A n \in DOMAIN Queues, m \in DOMAIN Queues : Queues[n] = Queues[m] => n = m
    /\ \A c \in Goroutines :
          Resolved(c) => /\ locals[c].queueName \in DOMAIN Queues
                         /\ locals[c].queue = Queues[locals[c].queueName]

\* Two callers asked for the same name while it was not registered, and
\* both have returned from GetQueue with the same object.
C4_Witness ==
    \E c \in Goroutines, d \in Goroutines :
        /\ c # d /\ Resolved(c) /\ Resolved(d)
        /\ locals[c].unseen /\ locals[d].unseen
        /\ locals[c].queueName = locals[d].queueName
        /\ locals[c].queue = locals[d].queue
        /\ Len(heap) = 1

(***************************************************************************)
(* C5: only the path of GetQueue that inserts a new name holds the         *)
(* registry lock exclusively; a lookup of a name that exists does not, so  *)
(* lookups of existing names can be inside GetQueue together.              *)
(***************************************************************************)
\* Goroutine c is inside GetQueue, between Lock and Unlock.
InGetQueue(c) == pc[c] \in {"gq_create", "gq_return"}

\* C5: a goroutine holding the registry lock exclusively inside GetQueue is
\* inserting a new name.
C5_ExclusiveOnlyToInsert ==
    \A c \in Goroutines : (InGetQueue(c) /\ qmmu = c) => ~locals[c].exists

(***************************************************************************)
(* C6: queues of different names are isolated.  The tiers of the queue     *)
(* registered under a name change only in a step in which a goroutine      *)
(* executes Push or Pop for that very name; the name keeps its object.     *)
(***************************************************************************)
C6_OnlyOwnOpsChange(n) ==
    /\ n \in DOMAIN Queues' /\ Queues'[n] = Queues[n]
    /\ Tiers(heap'[Queues[n]]) # Tiers(heap[Queues[n]])
          => \E c \in Goroutines : (PushBy(c) \/ PopBy(c)) /\ locals[c].queueName = n

\* C6: no step changes the tiers or the object of a name other than a Push or
\* Pop for that name.
C6_Isolation == [][\A n \in DOMAIN Queues : C6_OnlyOwnOpsChange(n)]_vars

\* A request on name m, which was not registered when the request arrived,
\* is past GetQueue; since it arrived, a push on another name n came, was
\* the first operation on n and is done; the queue of n holds its task.
C6_Witness ==
    \E c \in Goroutines, n \in DOMAIN Queues :
        /\ Resolved(c) /\ locals[c].unseen /\ locals[c].queueName # n
        /\ Len(hist[Queues[n]]) = 2
        /\ hist[Queues[n]][1].ev = "push_call" /\ hist[Queues[n]][2].ev = "push_done"
        /\ hist[Queues[n]][1].id > locals[c].id
        /\ Held(heap[Queues[n]]) # {}
        /\ Held(heap[locals[c].queue]) = {}

(***************************************************************************)
(* C7: a Pop on a queue whose three tiers are empty (never pushed to, or   *)
(* drained) returns nil, the handler answers "no tasks available", and the *)
(* tiers stay empty, however often it is repeated.                         *)
(***************************************************************************)
Empty(q) == Tiers(q) = <<<<>>, <<>>, <<>>>>

C7_PopStep(c) ==
    LET o == locals[c].queue
    IN  Empty(heap[o]) => /\ Empty(heap'[o])
                          /\ Last(hist'[o]) = Event("pop_done", 0, NoTask)
                          /\ locals'[c].result = <<>>

\* The handler answers the nil of Pop with "no tasks available".
C7_Answer(c) ==
    locals[c].result = <<>> => resp'[c] = HttpError(404, "No tasks available in queue")

\* C7: every Pop on an empty queue returns nil and leaves the queue empty.
C7_EmptyPopIsEmpty ==
    [][\A c \in Goroutines : /\ (PopBy(c) => C7_PopStep(c))
                              /\ (PopAnswerBy(c) => C7_Answer(c))]_vars

\* A queue was pushed to, drained, and popped again: the last pop found it empty.
C7_Witness ==
    \E o \in Objects :
        /\ Empty(heap[o])
        /\ \E i \in Events(hist[o], "pop_done") : hist[o][i].id # 0
        /\ Last(hist[o]) = Event("pop_done", 0, NoTask)
        /\ \E c \in Goroutines : resp[c].status = 404

(***************************************************************************)
(* C8: a task pushed through pushTaskHandler with a missing or an          *)
(* unrecognized priority has priority "low" from then on: the priority     *)
(* reported to the pusher, the one stored, and the one a pop returns are   *)
(* among "high", "medium" and "low", and a task of the Low tier says "low".*)
(***************************************************************************)
Recognized == {"high", "medium", "low"}

\* C8: past the push boundary every priority is "high", "medium" or "low",
\* and the tasks of the Low tier carry "low".
C8_PriorityNormalizedAtBoundary ==
    /\ \A c \in Goroutines : resp[c].status = 200 => resp[c].task.Priority \in Recognized
    /\ \A c \in Goroutines : pc[c] \in {"push_call", "push_lock", "push_body"} =>
                                 locals[c].task.Priority \in Recognized
    /\ \A o \in Objects : \A i \in 1..Len(heap[o].Low) : heap[o].Low[i].task.Priority = "low"

(***************************************************************************)
(* C9: draining a queue after pushes with no pop in between returns the    *)
(* pushed tasks stably sorted by tier: the "high" ones in push order, then *)
(* the "medium" ones in push order, then all others in push order, and     *)
(* then nil.                                                               *)
(***************************************************************************)
\* The numbers 1..n of the pushes of the plan whose client-side priority
\* satisfies Test, in push order.
C9_Select(Test(_)) ==
    SelectSeq([k \in 1..plan.n |-> k], LAMBDA k : Test(plan.tasks[k].priority))

C9_Expected ==
    C9_Select(LAMBDA p : p = "high") \o C9_Select(LAMBDA p : p = "medium")
        \o C9_Select(LAMBDA p : p \notin {"high", "medium"})

C9_DrainOf(h) ==
    LET pops == Pops(h)
    IN  /\ Len(pops) <= plan.n + 1
        /\ \A k \in 1..Len(pops) :
               IF k <= plan.n
               THEN /\ pops[k].id = C9_Expected[k]
                    /\ pops[k].task.Body = plan.tasks[pops[k].id].body
               ELSE pops[k].id = 0

\* C9: the pops of a drain return the pushes stably sorted by tier, then nil.
C9_DrainIsStableSort == \A o \in Objects : C9_DrainOf(hist[o])

\* The scenario of the example has run to its end: high, low, high were
\* pushed, and four pops returned the first, the third, the second, nil.
C9_Witness ==
    /\ plan.n = 3 /\ nops = 7 /\ Quiet
    /\ [k \in 1..3 |-> plan.tasks[k].priority] = <<"high", "low", "high">>
    /\ \E o \in Objects :
          [k \in 1..Len(Pops(hist[o])) |-> Pops(hist[o])[k].id] = <<1, 3, 2, 0>>

(***************************************************************************)
(* C10: the registry only grows and its entries are stable.  No step       *)
(* removes a name or gives it another object, no object is dropped, and a  *)
(* GetQueue for a registered name returns the object it is registered to.  *)
(***************************************************************************)
C10_Step ==
    /\ \A n \in DOMAIN Queues : n \in DOMAIN Queues' /\ Queues'[n] = Queues[n]
    /\ Len(heap') >= Len(heap)
    /\ \A c \in Goroutines :
          (pc[c] = "gq_return" /\ pc'[c] # "gq_return" /\ locals[c].queueName \in DOMAIN Queues)
              => locals'[c].queue = Queues[locals[c].queueName]

\* C10: no step removes or replaces a registry entry, and GetQueue returns
\* the registered object.
C10_RegistryStable == [][C10_Step]_vars

\* A queue was drained to empty, and a later request found its name still
\* registered and has been given the same object.
C10_Witness ==
    \E c \in Goroutines :
        /\ Resolved(c) /\ locals[c].exists
        /\ locals[c].queue = Queues[locals[c].queueName]
        /\ Empty(heap[locals[c].queue])
        /\ \E i \in Events(hist[locals[c].queue], "pop_done") : hist[locals[c].queue][i].id # 0

(***************************************************************************)
(* C11: malformed input never enters the core.  A push request with an     *)
(* unparseable payload or without a queue name, and a pop request without  *)
(* a queue name, are answered with status 400 in the step they arrive in,  *)
(* and that step changes neither the registry nor any Queue object, nor    *)
(* starts any call into the core.                                          *)
(***************************************************************************)
\* The answer to a malformed request, and what it leaves alone.
C11_Rejected(c) ==
    /\ resp'[c].status = 400
    /\ resp'[c].msg \in {"Invalid request body", "Queue query param required"}
    /\ pc'[c] = "idle"
    /\ UNCHANGED <<Queues, qmmu, heap, hist, pc, locals>>

\* The step is the arrival of a request (the only steps that count requests).
C11_Step ==
    nops' # nops =>
        \A c \in Goroutines :
            FreeGoroutine(c) =>
                /\ \A payload \in Payloads, queueName \in QueryNames :
                      ((~payload.ok \/ queueName = "") /\ pushTaskHandler(c, payload, queueName))
                          => C11_Rejected(c)
                /\ popTaskHandler(c, "") => C11_Rejected(c)

\* C11: every malformed push or pop request is answered 400 and leaves the
\* registry and all queues unchanged.
C11_MalformedNeverEntersCore == [][C11_Step]_vars

\* A malformed request has been answered 400 while a queue holds a task.
C11_Witness ==
    /\ \E c \in Goroutines : resp[c].status = 400
    /\ \E o \in Objects : Held(heap[o]) # {}

(***************************************************************************)
(* C12 (as amended): the empty queue name is rejected at the boundary.  A  *)
(* pop naming "" and a push naming "" with a parseable body are answered   *)
(* 400 "Queue query param required"; a push naming "" with an unparseable  *)
(* body is answered 400 "Invalid request body", the body being decoded     *)
(* before the name is looked at.  None of them starts a call of GetQueue,  *)
(* no queue is ever registered under "", no goroutine is in GetQueue, Push *)
(* or Pop for the name "", and no push to "" is ever reported as added.    *)
(* The original claim says that the name "" is accepted, that is, no       *)
(* request is refused for its queue name.                                  *)
(***************************************************************************)
\* C12, original: a request naming the queue "" is not rejected.
C12_EmptyNameAccepted ==
    \A c \in Goroutines : resp[c].msg # "Queue query param required"

\* The name "" never reaches the registry or a queue.
C12_NeverInCore ==
    /\ "" \notin DOMAIN Queues
    /\ \A c \in Goroutines : pc[c] # "idle" => locals[c].queueName # ""
    /\ \A c \in Goroutines : resp[c].msg = "Task added to queue" => resp[c].queueName # ""

\* Goroutine c answers the arriving request with 400 and msg, and returns.
C12_Refused(c, msg) ==
    /\ resp'[c] = HttpError(400, msg)
    /\ pc'[c] = "idle"
    /\ UNCHANGED <<Queues, qmmu, heap, hist, pc, locals>>

\* The arrival of a request naming the queue "".
C12_Step ==
    nops' # nops =>
        \A c \in Goroutines :
            FreeGoroutine(c) =>
                /\ \A payload \in Payloads :
                      pushTaskHandler(c, payload, "")
                          => C12_Refused(c, IF payload.ok THEN "Queue query param required"
                                                          ELSE "Invalid request body")
                /\ popTaskHandler(c, "") => C12_Refused(c, "Queue query param required")

\* C12, amended: every request naming "" is answered 400 on arrival, and the
\* name "" never reaches the registry or a queue.
C12_EmptyNameRejected == [](C12_NeverInCore) /\ [][C12_Step]_vars

\* A request naming "" was refused while another name is registered and
\* holds a task.
C12_Witness ==
    /\ \E c \in Goroutines : resp[c] = HttpError(400, "Queue query param required")
    /\ \E n \in DOMAIN Queues : Held(heap[Queues[n]]) # {}

(***************************************************************************)
(* C13: no operation waits for another operation's effect.  Under fair     *)
(* scheduling every request that has entered GetQueue, Push or Pop is      *)
(* answered, with 200 or, for a Pop that finds the queue empty, with 404;  *)
(* no further request has to arrive for that.                              *)
(***************************************************************************)
\* Goroutine c has returned from its handler with an answer of the core.
Answered(c) == pc[c] = "idle" /\ resp[c].status \in {200, 404}

\* C13: every started GetQueue, Push and Pop completes, whatever else happens.
C13_EveryOperationCompletes ==
    \A c \in Goroutines : [](pc[c] # "idle" => <>Answered(c))

\* A Pop has completed with the empty result on a queue nobody ever pushed to.
C13_Witness ==
    \E c \in Goroutines, o \in Objects :
        /\ Answered(c) /\ resp[c].status = 404
        /\ hist[o] = <<Event("pop_done", 0, NoTask)>>
        /\ \A d \in Goroutines : pc[d] = "idle"

(***************************************************************************)
(* C14: operations on one Queue object are mutually exclusive.  At most    *)
(* one goroutine is between Lock and Unlock of Push or Pop of an object,   *)
(* it is the holder of the object's mutex, and the tiers of the object are *)
(* what the completed Pushes and Pops yield when run one after the other   *)
(* in the order in which they released the lock.  A Push or Pop counts as  *)
(* completed from its Unlock, the last thing it does to the queue; its     *)
(* return to the handler and the handler's answer follow later.            *)
(***************************************************************************)
\* Goroutine c is between Lock and Unlock of Push or Pop on object o.
InQueueOp(c, o) == pc[c] \in {"push_body", "pop_body"} /\ locals[c].queue = o

\* The object left by running the operations recorded as done in h one after
\* the other.
RECURSIVE Replay(_)
Replay(h) ==
    IF h = <<>> THEN NewQueue
    ELSE LET q == Replay(SubSeq(h, 1, Len(h) - 1))
             e == Last(h)
         IN  CASE e.ev = "push_done" -> Push(q, Slot(e.task, e.id))
               [] e.ev = "pop_done"  -> Pop(q).queue
               [] OTHER             -> q

\* C14: at most one goroutine is inside Push or Pop of a Queue object, and
\* the object's tiers equal the serial replay of the completed operations.
C14_QueueOpsMutuallyExclusive ==
    \A o \in Objects :
        /\ Cardinality({c \in Goroutines : InQueueOp(c, o)}) <= 1
        /\ \A c \in Goroutines : InQueueOp(c, o) <=> heap[o].mu = c
        /\ Tiers(heap[o]) = Tiers(Replay(hist[o]))

\* A goroutine is inside Push or Pop of a queue while another one waits for
\* the lock of the same queue.
C14_Witness ==
    \E c \in Goroutines, d \in Goroutines, o \in Objects :
        /\ c # d /\ InQueueOp(c, o)
        /\ pc[d] \in {"push_lock", "pop_lock"} /\ locals[d].queue = o

(***************************************************************************)
(* C15: operations on different queues do not block each other.  A         *)
(* goroutine waiting at q.mu.Lock() can proceed exactly when no goroutine  *)
(* is inside Push or Pop of the same object, whatever happens on the other *)
(* objects; only the lookup in GetQueue is shared by all queues.           *)
(***************************************************************************)
\* C15: the lock of a Queue object is refused only because of an operation
\* on that same object; the manager lock only because of a lookup.
C15_DifferentQueuesIndependent ==
    \A d \in Goroutines :
        /\ pc[d] \in {"push_lock", "pop_lock"} =>
               (ENABLED QueueLock(d) <=>
                   ~ \E c \in Goroutines : InQueueOp(c, locals[d].queue))
        /\ pc[d] = "gq_lock" =>
               (ENABLED GetQueueLock(d) <=> ~ \E c \in Goroutines : InGetQueue(c))
        /\ pc[d] \in {"push_body", "pop_body"} => ENABLED Step(d)

\* One goroutine is inside Push or Pop of one queue while another waits for
\* the lock of a different queue.
C15_Witness ==
    \E c \in Goroutines, d \in Goroutines :
        /\ c # d
        /\ pc[c] \in {"push_body", "pop_body"}
        /\ pc[d] \in {"push_lock", "pop_lock"}
        /\ locals[c].queue # locals[d].queue

(***************************************************************************)
(* C16: no goroutine holds two locks, and no goroutines wait on each other.*)
(***************************************************************************)
\* The locks goroutine c holds: the registry lock (0) and Queue objects.
LocksHeld(c) ==
    {l \in {0} \cup Objects : IF l = 0 THEN qmmu = c ELSE heap[l].mu = c}

\* C16: every goroutine holds at most one lock; a goroutine holding a lock
\* is never waiting; and whenever a request is in progress some goroutine
\* can take a step.
C16_OneLockNoDeadlock ==
    /\ \A c \in Goroutines :
           /\ Cardinality(LocksHeld(c)) <= 1
           /\ LocksHeld(c) # {} => ENABLED Step(c)
    /\ (\E c \in Goroutines : pc[c] # "idle") =>
           \E c \in Goroutines : ENABLED Step(c)

\* One goroutine holds the registry lock while another holds a queue lock.
C16_Witness ==
    \E c \in Goroutines, d \in Goroutines :
        /\ LocksHeld(c) = {0}
        /\ \E o \in Objects : LocksHeld(d) = {o}

(***************************************************************************)
(* C17: Push changes exactly one tier.  Applied to any reachable Queue     *)
(* object and any task, Push appends the task to High for "high", to       *)
(* Medium for "medium" and to Low for every other priority string ("low",  *)
(* "" and unrecognized ones); the other tiers and the elements already in  *)
(* the tier stay, and Push always returns.                                 *)
(***************************************************************************)
\* The frame of Push(q, slot) for one queue state and one slot.
C17_Frame(q, slot) ==
    LET r == Push(q, slot)
        p == slot.task.Priority
    IN  /\ r.High   = IF p = "high" THEN q.High \o <<slot>> ELSE q.High
        /\ r.Medium = IF p = "medium" THEN q.Medium \o <<slot>> ELSE q.Medium
        /\ r.Low    = IF p \notin {"high", "medium"} THEN q.Low \o <<slot>> ELSE q.Low
        /\ Len(r.High) + Len(r.Medium) + Len(r.Low)
              = Len(q.High) + Len(q.Medium) + Len(q.Low) + 1

\* C17: Push appends the task at the tail of the tier of its priority, Low
\* for every priority other than "high" and "medium", changes nothing else,
\* and never fails.
C17_PushChangesOneTier ==
    /\ \A o \in Objects, b \in Bodies, p \in Priorities, id \in 1..MaxDrain :
           C17_Frame(heap[o], Slot(Task(b, p), id))
    /\ \A c \in Goroutines : pc[c] = "push_body" => ENABLED PushBody(c)

\* A Push of a task with an unrecognized priority has just been done and put
\* it behind an older task of the Low tier.
C17_Witness ==
    \E o \in Objects :
        /\ hist[o] # <<>> /\ Last(hist[o]).ev = "push_done"
        /\ Len(heap[o].Low) >= 2
        /\ heap[o].Low[Len(heap[o].Low)].id = Last(hist[o]).id
        /\ Last(hist[o]).task.Priority = "urgent"

(***************************************************************************)
(* C18: the frame of Pop.  Applied to any reachable Queue object, a Pop    *)
(* that returns a task takes the front of the first non-empty tier in the  *)
(* order High, Medium, Low, leaves that tier's other elements in order and *)
(* the other tiers as they were; a Pop that returns nil changes no tier.   *)
(***************************************************************************)
\* The tier names in the order Pop tries them.
TierOrder == <<"High", "Medium", "Low">>

\* The frame of Pop(q) for one queue state.
C18_Frame(q) ==
    LET r == Pop(q)
        nonEmpty == {k \in 1..3 : q[TierOrder[k]] # <<>>}
    IN  IF nonEmpty = {}
        THEN r.result = <<>> /\ Tiers(r.queue) = Tiers(q)
        ELSE LET k == CHOOSE i \in nonEmpty : \A j \in nonEmpty : i <= j
             IN  /\ r.result = <<q[TierOrder[k]][1]>>
                 /\ \A j \in 1..3 :
                        r.queue[TierOrder[j]] =
                            IF j = k
                            THEN SubSeq(q[TierOrder[j]], 2, Len(q[TierOrder[j]]))
                            ELSE q[TierOrder[j]]

\* C18: Pop removes exactly the front of the first non-empty tier and
\* changes nothing else; on an empty queue it changes nothing.
C18_PopFrame == \A o \in Objects : C18_Frame(heap[o])

\* A Pop has just taken the front of a tier and left the rest of the tier
\* in the queue.
C18_Witness ==
    \E o \in Objects :
        /\ hist[o] # <<>> /\ Last(hist[o]).ev = "pop_done" /\ Last(hist[o]).id # 0
        /\ \E s \in Held(heap[o]) :
               TierOf(s.task) = TierOf(Last(hist[o]).task)

(***************************************************************************)
(* C19: task conservation.  For every queue and every task value, the      *)
(* number of completed Pushes of it equals the number of completed Pops    *)
(* that took it plus the number of copies in the three tiers.  A Push or   *)
(* Pop counts as completed from its Unlock, the last thing it does to the  *)
(* queue; the handlers' answers follow later, in any order.                *)
(***************************************************************************)
\* The tasks of Bodies and Priorities the core can be given.
Tasks == {Task(b, p) : b \in Bodies, p \in Priorities}

\* How many entries of the sequence s, of events or slots, carry the task.
CountOf(task, s) == Cardinality({i \in 1..Len(s) : s[i].task = task})

\* A completed Pop that took a task.
IsTaken(e) == e.ev = "pop_done" /\ e.id # 0

\* C19: pushed = popped + held, as multisets of tasks, for every queue; no
\* accepted entry is returned twice or returned without a completed Push.
C19_TaskConservation ==
    \A o \in Objects :
        LET h == hist[o]
            pushed == SelectSeq(h, LAMBDA e : e.ev = "push_done")
            popped == SelectSeq(h, IsTaken)
            held == heap[o].High \o heap[o].Medium \o heap[o].Low
            \* Every other task is counted zero times on both sides.
            seen == {h[i].task : i \in 1..Len(h)} \cup {held[i].task : i \in 1..Len(held)}
        IN  /\ \A task \in seen :
                   CountOf(task, pushed) = CountOf(task, popped) + CountOf(task, held)
            /\ \A i \in 1..Len(popped) :
                   /\ \E j \in 1..Len(pushed) : pushed[j].id = popped[i].id
                   /\ \A j \in 1..Len(popped) : popped[j].id = popped[i].id => j = i

\* Two Pushes of the same task left two entries, one of which a Pop has
\* returned while the other is still held.
C19_Witness ==
    \E o \in Objects, task \in Tasks :
        /\ CountOf(task, SelectSeq(hist[o], LAMBDA e : e.ev = "push_done")) = 2
        /\ CountOf(task, SelectSeq(hist[o], IsTaken)) = 1
        /\ CountOf(task, heap[o].High \o heap[o].Medium \o heap[o].Low) = 1

(***************************************************************************)
(* C20: the core never rewrites a task.  What Pop returns, and what the    *)
(* tiers hold, has the Body and the Priority string that were passed to    *)
(* Push, also for priorities Push does not recognize.                      *)
(***************************************************************************)
\* The task passed to the Push call of request id on the object of history h.
Passed(h, id) == h[At(h, "push_call", id)].task

\* C20: every task returned by Pop or held in a tier equals the task passed
\* to Push for it, and a Push followed by a Pop gives the task back as it
\* was for every priority string.
C20_CoreNeverRewrites ==
    /\ \A o \in Objects :
           /\ \A i \in 1..Len(hist[o]) :
                  IsTaken(hist[o][i]) =>
                      /\ Has(hist[o], "push_call", hist[o][i].id)
                      /\ hist[o][i].task = Passed(hist[o], hist[o][i].id)
           /\ \A s \in Held(heap[o]) :
                  /\ Has(hist[o], "push_call", s.id)
                  /\ s.task = Passed(hist[o], s.id)
    /\ \A task \in Tasks :
           Pop(Push(NewQueue, Slot(task, 1))).result = <<Slot(task, 1)>>

\* A Pop has returned a task whose priority Push does not recognize.
C20_Witness ==
    \E o \in Objects : \E i \in 1..Len(hist[o]) :
        /\ IsTaken(hist[o][i])
        /\ hist[o][i].task.Priority \notin {"high", "medium", "low"}
        /\ hist[o][i].task = Passed(hist[o], hist[o][i].id)

=============================================================================
